---- MODULE Spec2Model ----
(***************************************************************************)
(* Model of the RAG (Red/Amber/Green) classification core of the Jira MCP  *)
(* server: jira_mcp_server/rag_classifier.py with the rule configuration   *)
(* of jira_mcp_server/config.py and the Issue record of                    *)
(* jira_mcp_server/models.py.                                              *)
(*                                                                         *)
(* Python strings are TLA+ strings; str.lower(), the `in` substring test   *)
(* and ', '.join() are computed character by character.  Optional values   *)
(* are sequences of length at most one: None is <<>> and a present value   *)
(* v is <<v>>.  The float confidence (1.0 or 0.0) is the integer 1 or 0.   *)
(***************************************************************************)
EXTENDS Integers, Sequences, FiniteSets, TLC

VARIABLES
  config,          \* RAGClassifier.config, the RAGConfig the classifier was built with
  issue,           \* the Issue handed to classify_issue
  result,          \* the RAGClassificationResult of the last classify_issue call
  issues,          \* the list of Issue objects handed to the batch and summary operations
  results,         \* the dict returned by the last classify_issues_batch call
  batch_calls,     \* how many times classify_issues_batch ran on the list
  summary,         \* the dict returned by the last get_rag_summary call
  overall_status,  \* the RAGStatus returned by the last get_overall_status call
  report_data,     \* the WeeklyReportData of the last _categorize_issues_for_report call
  raised,          \* the message of the exception the last call propagated, if any
  requests         \* the server's requests in flight: where each handler stands

vars ==
  <<config, issue, result, issues, results, batch_calls, summary,
    overall_status, report_data, raised, requests>>

\* the variables the list operations and the server write
batch_vars ==
  <<issues, results, batch_calls, summary, overall_status, report_data, raised,
    requests>>

----------------------------------------------------------------------------
(* Optional values *)

None == <<>>

Some(v) == <<v>>

Get(o) == o[1]

----------------------------------------------------------------------------
(* Python string primitives *)

UpperChars == "ABCDEFGHIJKLMNOPQRSTUVWXYZ"

LowerChars == "abcdefghijklmnopqrstuvwxyz"

\* str.lower() on one character
LowerChar ==
  [c \in {SubSeq(UpperChars, i, i) : i \in 1..Len(UpperChars)} |->
     LET i == CHOOSE j \in 1..Len(UpperChars) : SubSeq(UpperChars, j, j) = c
     IN  SubSeq(LowerChars, i, i)]

RECURSIVE lower(_)
\* str.lower()
lower(s) ==
  IF Len(s) = 0 THEN s
  ELSE LET c == SubSeq(s, 1, 1)
       IN  (IF c \in DOMAIN LowerChar THEN LowerChar[c] ELSE c)
             \o lower(SubSeq(s, 2, Len(s)))

\* Python's `sub in s` on strings: sub occurs in s as a contiguous substring
\* (the empty string occurs in every string)
StrIn(sub, s) ==
  \E i \in 0..(Len(s) - Len(sub)) : SubSeq(s, i + 1, i + Len(sub)) = sub

\* Python's `x in lst` on lists
ListIn(x, lst) == \E i \in 1..Len(lst) : lst[i] = x

RECURSIVE join(_, _)
\* sep.join(lst)
join(sep, lst) ==
  IF Len(lst) = 0 THEN ""
  ELSE IF Len(lst) = 1 THEN lst[1]
  ELSE lst[1] \o sep \o join(sep, Tail(lst))

----------------------------------------------------------------------------
(* models.py *)

RED == "red"

AMBER == "amber"

GREEN == "green"

RAGStatus == {RED, AMBER, GREEN}

\* RAGClassificationResult(status, reason, confidence = 1.0)
RAGClassificationResult(status, reason) ==
  [status |-> status, reason |-> reason, confidence |-> 1]

----------------------------------------------------------------------------
(* datetime: a date is a day number; a datetime is an instant counted in   *)
(* ticks of which a day has TicksPerDay, with or without a timezone        *)

\* resolution of the time of day
TicksPerDay == 2

\* datetime.combine(d, datetime.min.time()): the first instant of day d, naive
combine_min(d) == [ticks |-> d * TicksPerDay, aware |-> FALSE]

\* datetime.combine(d, datetime.max.time()): the last instant of day d, naive
combine_max(d) == [ticks |-> d * TicksPerDay + (TicksPerDay - 1), aware |-> FALSE]

\* a <= b raises TypeError when exactly one of the two carries a timezone
CanCompare(a, b) == a.aware = b.aware

NaiveAwareError == "can't compare offset-naive and offset-aware datetimes"

----------------------------------------------------------------------------
(* config.py *)

DefaultGreenMaxDays == 3

DefaultYellowMaxDays == 7

\* RAGConfig() with every field at its default
RAGConfig ==
  [green_max_days_in_status  |-> DefaultGreenMaxDays,
   yellow_max_days_in_status |-> DefaultYellowMaxDays,
   red_priority_levels       |-> <<"Highest", "High">>,
   blocked_statuses          |-> <<"Blocked", "Waiting">>]

----------------------------------------------------------------------------
(* rag_classifier.py: RAGClassifier *)

\* f"{issue.days_in_status}": str() of an Optional[int]
str_days(d) == IF d = None THEN "None" ELSE ToString(Get(d))

\* variant: the is_blocked flag is ignored, only the status name is looked at
IsBlockedStatus_StatusOnly(i, cfg) ==
  \E k \in 1..Len(cfg.blocked_statuses) :
    StrIn(lower(cfg.blocked_statuses[k]), lower(i.status.name))

\* variant: an empty configured status name matches nothing
IsBlockedStatus_SkipEmpty(i, cfg) ==
  \/ i.is_blocked
  \/ \E k \in 1..Len(cfg.blocked_statuses) :
       /\ cfg.blocked_statuses[k] # ""
       /\ StrIn(lower(cfg.blocked_statuses[k]), lower(i.status.name))

\* is_blocked, or the lowered status name contains a lowered blocked status
IsBlockedStatus(i, cfg) ==
  \/ i.is_blocked
  \/ \E k \in 1..Len(cfg.blocked_statuses) :
       StrIn(lower(cfg.blocked_statuses[k]), lower(i.status.name))

\* variant: an unknown days_in_status counts as overdue
IsRedPriorityOverdue_NoneOverdue(i, cfg) ==
  /\ ListIn(i.priority, cfg.red_priority_levels)
  /\ \/ i.days_in_status = None
     \/ Get(i.days_in_status) > cfg.yellow_max_days_in_status

\* a red priority level whose known days_in_status exceeds the yellow threshold
IsRedPriorityOverdue(i, cfg) ==
  /\ ListIn(i.priority, cfg.red_priority_levels)
  /\ i.days_in_status # None
  /\ Get(i.days_in_status) > cfg.yellow_max_days_in_status

critical_labels == <<"critical-blocker", "production-issue", "escalated">>

\* variant: the label is not lowered before the substring test
IsCriticalLabel_CaseSensitive(label) ==
  \E k \in 1..Len(critical_labels) : StrIn(critical_labels[k], label)

IsCriticalLabel(label) ==
  \E k \in 1..Len(critical_labels) : StrIn(critical_labels[k], lower(label))

found_critical_labels(i) == SelectSeq(i.labels, IsCriticalLabel)

\* variant: the critical labels are looked at before the blocker links
_check_red_conditions_LabelsFirst(i, cfg) ==
  IF IsBlockedStatus(i, cfg)
  THEN Some(RAGClassificationResult(RED,
         "Issue is in blocked status: " \o i.status.name))
  ELSE IF IsRedPriorityOverdue(i, cfg)
  THEN Some(RAGClassificationResult(RED,
         "High priority issue (" \o i.priority \o ") has been in "
           \o i.status.name \o " for " \o str_days(i.days_in_status)
           \o " days"))
  ELSE IF Len(found_critical_labels(i)) > 0
  THEN Some(RAGClassificationResult(RED,
         "Issue has critical labels: " \o join(", ", found_critical_labels(i))))
  ELSE IF Len(i.blockers) > 0
  THEN Some(RAGClassificationResult(RED,
         "Issue has " \o ToString(Len(i.blockers)) \o " blocking dependencies"))
  ELSE None

_check_red_conditions(i, cfg) ==
  IF IsBlockedStatus(i, cfg)
  THEN Some(RAGClassificationResult(RED,
         "Issue is in blocked status: " \o i.status.name))
  ELSE IF IsRedPriorityOverdue(i, cfg)
  THEN Some(RAGClassificationResult(RED,
         "High priority issue (" \o i.priority \o ") has been in "
           \o i.status.name \o " for " \o str_days(i.days_in_status)
           \o " days"))
  ELSE IF Len(i.blockers) > 0
  THEN Some(RAGClassificationResult(RED,
         "Issue has " \o ToString(Len(i.blockers)) \o " blocking dependencies"))
  ELSE IF Len(found_critical_labels(i)) > 0
  THEN Some(RAGClassificationResult(RED,
         "Issue has critical labels: " \o join(", ", found_critical_labels(i))))
  ELSE None

\* known days_in_status above the green threshold
IsOverGreen(i, cfg) ==
  /\ i.days_in_status # None
  /\ Get(i.days_in_status) > cfg.green_max_days_in_status

\* variant: the yellow threshold itself is excluded
IsInAmberAge_Exclusive(i, cfg) ==
  /\ IsOverGreen(i, cfg)
  /\ Get(i.days_in_status) < cfg.yellow_max_days_in_status

\* above the green threshold and not above the yellow one
IsInAmberAge(i, cfg) ==
  /\ IsOverGreen(i, cfg)
  /\ Get(i.days_in_status) <= cfg.yellow_max_days_in_status

risk_labels == <<"risk", "concern", "dependency", "delayed">>

IsRiskLabel(label) ==
  \E k \in 1..Len(risk_labels) : StrIn(risk_labels[k], lower(label))

found_risk_labels(i) == SelectSeq(i.labels, IsRiskLabel)

development_statuses == <<"in progress", "development", "coding", "implementation">>

IsDevelopmentStatus(i) ==
  \E k \in 1..Len(development_statuses) :
    StrIn(development_statuses[k], lower(i.status.name))

\* variant: the risk labels are looked at before the priority
_check_amber_conditions_LabelsFirst(i, cfg) ==
  IF IsInAmberAge(i, cfg)
  THEN Some(RAGClassificationResult(AMBER,
         "Issue has been in " \o i.status.name \o " for "
           \o str_days(i.days_in_status) \o " days"))
  ELSE IF Len(found_risk_labels(i)) > 0
  THEN Some(RAGClassificationResult(AMBER,
         "Issue has risk-related labels: " \o join(", ", found_risk_labels(i))))
  ELSE IF ListIn(i.priority, cfg.red_priority_levels)
  THEN Some(RAGClassificationResult(AMBER,
         "High priority issue (" \o i.priority \o ") requires close monitoring"))
  ELSE IF i.assignee = None /\ IsOverGreen(i, cfg)
  THEN Some(RAGClassificationResult(AMBER,
         "Unassigned issue has been in " \o i.status.name \o " for "
           \o str_days(i.days_in_status) \o " days"))
  ELSE IF IsDevelopmentStatus(i) /\ IsOverGreen(i, cfg)
  THEN Some(RAGClassificationResult(AMBER,
         "Development issue has been in progress for "
           \o str_days(i.days_in_status) \o " days"))
  ELSE None

\* variant: the high-priority rule is missing
_check_amber_conditions_NoPriority(i, cfg) ==
  IF IsInAmberAge(i, cfg)
  THEN Some(RAGClassificationResult(AMBER,
         "Issue has been in " \o i.status.name \o " for "
           \o str_days(i.days_in_status) \o " days"))
  ELSE IF Len(found_risk_labels(i)) > 0
  THEN Some(RAGClassificationResult(AMBER,
         "Issue has risk-related labels: " \o join(", ", found_risk_labels(i))))
  ELSE IF i.assignee = None /\ IsOverGreen(i, cfg)
  THEN Some(RAGClassificationResult(AMBER,
         "Unassigned issue has been in " \o i.status.name \o " for "
           \o str_days(i.days_in_status) \o " days"))
  ELSE IF IsDevelopmentStatus(i) /\ IsOverGreen(i, cfg)
  THEN Some(RAGClassificationResult(AMBER,
         "Development issue has been in progress for "
           \o str_days(i.days_in_status) \o " days"))
  ELSE None

_check_amber_conditions(i, cfg) ==
  IF IsInAmberAge(i, cfg)
  THEN Some(RAGClassificationResult(AMBER,
         "Issue has been in " \o i.status.name \o " for "
           \o str_days(i.days_in_status) \o " days"))
  ELSE IF ListIn(i.priority, cfg.red_priority_levels)
  THEN Some(RAGClassificationResult(AMBER,
         "High priority issue (" \o i.priority \o ") requires close monitoring"))
  ELSE IF Len(found_risk_labels(i)) > 0
  THEN Some(RAGClassificationResult(AMBER,
         "Issue has risk-related labels: " \o join(", ", found_risk_labels(i))))
  ELSE IF i.assignee = None /\ IsOverGreen(i, cfg)
  THEN Some(RAGClassificationResult(AMBER,
         "Unassigned issue has been in " \o i.status.name \o " for "
           \o str_days(i.days_in_status) \o " days"))
  ELSE IF IsDevelopmentStatus(i) /\ IsOverGreen(i, cfg)
  THEN Some(RAGClassificationResult(AMBER,
         "Development issue has been in progress for "
           \o str_days(i.days_in_status) \o " days"))
  ELSE None

\* variant: the amber rules are consulted before the red ones
classify_issue_AmberFirst(i, cfg) ==
  LET amber_result == _check_amber_conditions(i, cfg)
  IN  IF amber_result # None THEN Get(amber_result)
      ELSE LET red_result == _check_red_conditions(i, cfg)
           IN  IF red_result # None THEN Get(red_result)
               ELSE RAGClassificationResult(GREEN,
                      "Issue is progressing normally with no identified risks")

\* variant: no GREEN default, the empty amber result is passed on
classify_issue_NoDefault(i, cfg) ==
  LET red_result == _check_red_conditions(i, cfg)
  IN  IF red_result # None THEN Get(red_result)
      ELSE LET amber_result == _check_amber_conditions(i, cfg)
           IN  IF amber_result # None THEN Get(amber_result)
               ELSE RAGClassificationResult("None", "")

classify_issue(i, cfg) ==
  LET red_result == _check_red_conditions(i, cfg)
  IN  IF red_result # None THEN Get(red_result)
      ELSE LET amber_result == _check_amber_conditions(i, cfg)
           IN  IF amber_result # None THEN Get(amber_result)
               ELSE RAGClassificationResult(GREEN,
                      "Issue is progressing normally with no identified risks")

----------------------------------------------------------------------------
(* Bounds and inputs *)

\* days_in_status ranges over None and 0..MaxDays
MaxDays == 8

\* non-default thresholds range over 0..MaxThreshold
MaxThreshold == 1

\* an issue has at most MaxBlockers blocker links
MaxBlockers == 2

StatusNames ==
  {"In Progress", "Code Review", "Partially Blocked", "Waiting", "On Hold"}

Priorities == {"Highest", "High", "Medium"}

LabelLists ==
  { <<>>,
    <<"production-issue">>,
    <<"tech-risk">>,
    <<"backend", "Escalated", "at-risk", "PROD-Critical-Blocker">> }

\* [f"BLOCK-{k}" for k in 1..n]
BlockerList(n) == [k \in 1..n |-> "BLOCK-" \o ToString(k)]

\* User(account_id, display_name)
TestUser == [account_id |-> "user1", display_name |-> "Test User"]

\* Issue records as the collector or a test builds them, not yet classified
Issues ==
  { [key            |-> "TEST-123",
     status         |-> [name |-> st],
     priority       |-> pr,
     assignee       |-> asg,
     labels         |-> lb,
     blockers       |-> BlockerList(nb),
     days_in_status |-> d,
     is_blocked     |-> bl,
     updated        |-> combine_min(0),
     resolved       |-> None,
     rag_status     |-> None,
     rag_reason     |-> None] :
      st \in StatusNames, pr \in Priorities, asg \in {None, Some(TestUser)},
      lb \in LabelLists, nb \in 0..MaxBlockers,
      d \in {None} \cup {Some(n) : n \in 0..MaxDays}, bl \in BOOLEAN }

\* rule configurations: the default one, and overrides of each field
Configs ==
  { [green_max_days_in_status  |-> g,
     yellow_max_days_in_status |-> y,
     red_priority_levels       |-> rp,
     blocked_statuses          |-> bs] :
      g  \in (0..MaxThreshold) \cup {RAGConfig.green_max_days_in_status},
      y  \in (0..MaxThreshold) \cup {RAGConfig.yellow_max_days_in_status},
      rp \in {RAGConfig.red_priority_levels, <<"Medium">>},
      bs \in {RAGConfig.blocked_statuses, <<"on hold">>, <<>>} }

----------------------------------------------------------------------------
(* State machine: a classifier constructed over a configuration, one issue *)
(* handed to it, and the verdict of the last classify_issue call           *)

TypeOK ==
  /\ config \in Configs
  /\ issue \in Issues
  /\ result = None \/ Get(result).status \in RAGStatus

\* RAGClassifier(config) constructed, an issue at hand, nothing classified yet
Init ==
  /\ config \in Configs
  /\ issue \in Issues
  /\ result = None
  /\ issues = <<>>
  /\ results = None
  /\ batch_calls = 0
  /\ summary = None
  /\ overall_status = None
  /\ report_data = None
  /\ raised = None
  /\ requests = <<>>

\* variant: classify_issue also writes its verdict onto the issue
ClassifyIssue_WritesVerdict ==
  /\ result' = Some(classify_issue(issue, config))
  /\ issue' = [issue EXCEPT !.rag_status = Some(classify_issue(issue, config).status),
                            !.rag_reason = Some(classify_issue(issue, config).reason)]
  /\ UNCHANGED config
  /\ UNCHANGED batch_vars

\* result = classifier.classify_issue(issue)
ClassifyIssue ==
  /\ result' = Some(classify_issue(issue, config))
  /\ UNCHANGED <<config, issue>>
  /\ UNCHANGED batch_vars

Next == ClassifyIssue

Spec == Init /\ [][Next]_vars

----------------------------------------------------------------------------
(* Properties of classify_issue *)

\* classify_issue has returned a verdict for the issue at hand
Classified == result # None

verdict == Get(result)

days == issue.days_in_status

\* the status name contains, case-insensitively, a configured blocked status
HasBlockedStatusName ==
  \E k \in 1..Len(config.blocked_statuses) :
    StrIn(lower(config.blocked_statuses[k]), lower(issue.status.name))

HasRedPriority == ListIn(issue.priority, config.red_priority_levels)

DaysOver(threshold) == days # None /\ Get(days) > threshold

CriticalWords == {"critical-blocker", "production-issue", "escalated"}

\* the labels that contain a critical word, in the order of the issue's labels
MatchingCriticalLabels ==
  LET Match(l) == \E w \in CriticalWords : StrIn(w, lower(l))
  IN  SelectSeq(issue.labels, Match)

RiskWords == {"risk", "concern", "dependency", "delayed"}

HasRiskLabel ==
  \E k \in 1..Len(issue.labels) :
    \E w \in RiskWords : StrIn(w, lower(issue.labels[k]))

DevelopmentWords == {"in progress", "development", "coding", "implementation"}

\* some RED condition other than the red-priority-overdue one
HasOtherRedCondition ==
  \/ issue.is_blocked
  \/ HasBlockedStatusName
  \/ issue.blockers # <<>>
  \/ MatchingCriticalLabels # <<>>

HasRedCondition ==
  \/ HasOtherRedCondition
  \/ HasRedPriority /\ DaysOver(config.yellow_max_days_in_status)

HasAmberCondition ==
  \/ DaysOver(config.green_max_days_in_status)
       /\ Get(days) <= config.yellow_max_days_in_status
  \/ HasRedPriority
  \/ HasRiskLabel
  \/ issue.assignee = None /\ DaysOver(config.green_max_days_in_status)
  \/ /\ \E w \in DevelopmentWords : StrIn(w, lower(issue.status.name))
     /\ DaysOver(config.green_max_days_in_status)

\* C1: a blocked issue (is_blocked true) is classified RED, whatever its
\* status name, priority, labels, blockers, assignee and days_in_status
\* (None included) and whatever the rule configuration
C1_BlockedIsRed ==
  Classified /\ issue.is_blocked => verdict.status = RED

C1_Witness ==
  /\ Classified
  /\ issue.is_blocked
  /\ issue.status.name = "Code Review"
  /\ issue.priority = "Medium"
  /\ days = None
  /\ config.blocked_statuses = <<>>
  /\ verdict.status = RED

\* C2: an issue that matches a RED condition and an AMBER condition at the
\* same time is classified RED, never AMBER or GREEN
C2_RedBeatsAmber ==
  Classified /\ HasRedCondition /\ HasAmberCondition => verdict.status = RED

C2_Witness ==
  /\ Classified
  /\ issue.is_blocked
  /\ issue.assignee = None
  /\ DaysOver(config.green_max_days_in_status)
  /\ ~HasRedPriority
  /\ verdict.status = RED

\* C3: an issue with a red priority is never GREEN; without another RED
\* condition it is RED exactly when days_in_status is known and above
\* yellow_max_days, and AMBER otherwise (fresh or unknown age included)
C3_RedPriorityAtLeastAmber ==
  Classified /\ HasRedPriority =>
    /\ verdict.status # GREEN
    /\ ~HasOtherRedCondition =>
         IF DaysOver(config.yellow_max_days_in_status)
         THEN verdict.status = RED
         ELSE verdict.status = AMBER

C3_Witness ==
  /\ Classified
  /\ config = RAGConfig
  /\ issue.priority = "High"
  /\ ~HasOtherRedCondition
  /\ days = Some(1)
  /\ issue.labels = <<>>
  /\ issue.assignee # None
  /\ verdict.status = AMBER

\* C4: an unassigned issue whose days_in_status is above green_max_days and
\* which matches no RED condition is classified AMBER with a reason that
\* names it as unassigned and cites the day count
C4_UnassignedOverdueReason ==
  Classified /\ issue.assignee = None
    /\ DaysOver(config.green_max_days_in_status) /\ ~HasRedCondition =>
      /\ verdict.status = AMBER
      /\ StrIn("unassigned", lower(verdict.reason))
      /\ StrIn(str_days(days), verdict.reason)

\* C5: every issue classified GREEN has days_in_status unknown or at most
\* green_max_days
C5_GreenWithinGreenMaxDays ==
  Classified /\ verdict.status = GREEN =>
    ~DaysOver(config.green_max_days_in_status)

C7_Total ==
  Classified =>
    /\ verdict.status \in {RED, AMBER, GREEN}
    /\ Cardinality({t \in {RED, AMBER, GREEN} : verdict.status = t}) = 1
    /\ Len(verdict.reason) > 0

C7_Witness ==
  /\ Classified
  /\ ~HasRedCondition
  /\ ~HasAmberCondition
  /\ verdict.status = GREEN
  /\ Len(verdict.reason) > 0

\* C8: under the default configuration an issue whose status name contains
\* 'On Hold' and whose is_blocked flag is false is classified RED by the
\* blocked-status rule
C8_OnHoldIsRedByDefault ==
  Classified /\ config = RAGConfig /\ ~issue.is_blocked
    /\ StrIn("On Hold", issue.status.name) =>
      /\ verdict.status = RED
      /\ verdict.reason = "Issue is in blocked status: " \o issue.status.name

C10_CriticalLabelIsRed ==
  Classified /\ ~issue.is_blocked /\ ~HasBlockedStatusName
    /\ issue.blockers = <<>> /\ ~HasRedPriority
    /\ ~DaysOver(config.green_max_days_in_status)
    /\ MatchingCriticalLabels # <<>> =>
      /\ verdict.status = RED
      /\ verdict.reason =
           "Issue has critical labels: " \o join(", ", MatchingCriticalLabels)

C10_Witness ==
  /\ Classified
  /\ config = RAGConfig
  /\ issue.status.name = "Code Review"
  /\ issue.priority = "Medium"
  /\ days = Some(2)
  /\ ~issue.is_blocked
  /\ issue.blockers = <<>>
  /\ verdict.status = RED
  /\ verdict.reason = "Issue has critical labels: Escalated, PROD-Critical-Blocker"

----------------------------------------------------------------------------
(* rag_classifier.py: classify_issues_batch *)

\* A record whose labels attribute holds no list (labels = None, which the
\* Issue model does not re-validate on assignment) is a record without the
\* labels field; iterating it at the critical-label rule raises TypeError.
NotIterableError == "'NoneType' object is not iterable"

\* the message of the exception classify_issue raises on i; None when it returns
classify_issue_error(i, cfg) ==
  IF /\ "labels" \notin DOMAIN i
     /\ ~IsBlockedStatus(i, cfg)
     /\ ~IsRedPriorityOverdue(i, cfg)
     /\ Len(i.blockers) = 0
  THEN Some(NotIterableError)
  ELSE None

\* the degraded verdict of the except branch
error_result(e) ==
  [status |-> AMBER, reason |-> "Classification error: " \o e, confidence |-> 0]

\* variant: only the tier is written onto the issue
write_verdict_StatusOnly(i, v) == [i EXCEPT !.rag_status = Some(v.status)]

\* issue.rag_status = result.status; issue.rag_reason = result.reason
write_verdict(i, v) ==
  [i EXCEPT !.rag_status = Some(v.status), !.rag_reason = Some(v.reason)]

\* variant: an entry already in the dict is kept
dict_set_KeepFirst(d, key, v) == d @@ (key :> v)

\* results[key] = v
dict_set(d, key, v) == (key :> v) @@ d

RECURSIVE batch_loop_NoExcept(_, _, _, _)
\* variant: no try/except around classify_issue, the exception leaves the loop
batch_loop_NoExcept(iss, cfg, k, res) ==
  IF k > Len(iss)
  THEN [results |-> res, issues |-> iss, raised |-> None]
  ELSE LET e == classify_issue_error(iss[k], cfg)
       IN  IF e # None
           THEN [results |-> res, issues |-> iss, raised |-> e]
           ELSE LET v == classify_issue(iss[k], cfg)
                IN  batch_loop_NoExcept([iss EXCEPT ![k] = write_verdict(iss[k], v)],
                                        cfg, k + 1, dict_set(res, iss[k].key, v))

RECURSIVE batch_loop_SkipClassified(_, _, _, _)
\* variant: an issue that already carries a rag_status is not classified again
batch_loop_SkipClassified(iss, cfg, k, res) ==
  IF k > Len(iss)
  THEN [results |-> res, issues |-> iss, raised |-> None]
  ELSE IF iss[k].rag_status # None
  THEN batch_loop_SkipClassified(iss, cfg, k + 1, res)
  ELSE LET e == classify_issue_error(iss[k], cfg)
           v == IF e = None THEN classify_issue(iss[k], cfg)
                            ELSE error_result(Get(e))
       IN  batch_loop_SkipClassified([iss EXCEPT ![k] = write_verdict(iss[k], v)],
                                     cfg, k + 1, dict_set(res, iss[k].key, v))

RECURSIVE batch_loop(_, _, _, _)
\* the for loop from its k-th issue on, res being the dict built so far
batch_loop(iss, cfg, k, res) ==
  IF k > Len(iss)
  THEN [results |-> res, issues |-> iss, raised |-> None]
  ELSE LET e == classify_issue_error(iss[k], cfg)
           v == IF e = None THEN classify_issue(iss[k], cfg)
                            ELSE error_result(Get(e))
       IN  batch_loop([iss EXCEPT ![k] = write_verdict(iss[k], v)],
                      cfg, k + 1, dict_set(res, iss[k].key, v))

\* the returned dict, the issues as the call leaves them, and the exception
\* that left the call, if any
classify_issues_batch(iss, cfg) == batch_loop(iss, cfg, 1, <<>>)

----------------------------------------------------------------------------
(* Inputs of the batch *)

\* the list handed to classify_issues_batch has at most MaxBatch issues
MaxBatch == 3

\* classify_issues_batch runs at most MaxBatchCalls times on the list
MaxBatchCalls == 2

\* the sample_issue fixture of the tests
sample_issue ==
  [key            |-> "TEST-123",
   status         |-> [name |-> "In Progress"],
   priority       |-> "Medium",
   assignee       |-> Some(TestUser),
   labels         |-> <<>>,
   blockers       |-> <<>>,
   days_in_status |-> Some(2),
   is_blocked     |-> FALSE,
   updated        |-> combine_min(0),
   resolved       |-> None,
   rag_status     |-> None,
   rag_reason     |-> None]

\* the record r without its labels attribute
WithoutLabels(r) == [f \in DOMAIN r \ {"labels"} |-> r[f]]

\* the issues of test_batch_classification, and two records without labels
BatchKinds ==
  { [sample_issue EXCEPT !.days_in_status = Some(1)],
    [sample_issue EXCEPT !.days_in_status = Some(5)],
    [sample_issue EXCEPT !.priority = "Highest", !.days_in_status = Some(10)],
    WithoutLabels([sample_issue EXCEPT !.days_in_status = Some(1)]),
    WithoutLabels([sample_issue EXCEPT !.is_blocked = TRUE]) }

\* each kind under the first key, and two kinds under the second as well,
\* not yet classified
BatchIssues ==
  { [i EXCEPT !.key = "TEST-0"] : i \in BatchKinds }
    \cup { [sample_issue EXCEPT !.key = "TEST-1", !.priority = "Highest",
                                !.days_in_status = Some(10)],
           WithoutLabels([sample_issue EXCEPT !.key = "TEST-1",
                                              !.days_in_status = Some(1)]) }

\* what a list carries before the call: nothing, or the verdict of an
\* earlier classification
EarlierVerdicts ==
  { [rag_status |-> None, rag_reason |-> None],
    [rag_status |-> Some(RED),
     rag_reason |-> Some("Issue has 1 blocking dependencies")] }

\* the list l with the earlier verdict old on each of its issues
WithVerdict(l, old) ==
  [k \in 1..Len(l) |->
     [l[k] EXCEPT !.rag_status = old.rag_status, !.rag_reason = old.rag_reason]]

\* all lists of at most n elements of S
RECURSIVE ListsUpTo(_, _)
ListsUpTo(S, n) ==
  IF n = 0 THEN {<<>>}
  ELSE LET shorter == ListsUpTo(S, n - 1)
       IN  shorter \cup {Append(l, x) : l \in {m \in shorter : Len(m) = n - 1}, x \in S}

BatchConfigs ==
  { RAGConfig,
    [RAGConfig EXCEPT !.green_max_days_in_status = 0,
                      !.yellow_max_days_in_status = 1] }

----------------------------------------------------------------------------
(* State machine of the batch: a classifier and a list of issues on which  *)
(* classify_issues_batch is called, possibly more than once                *)

InitBatch ==
  /\ config \in BatchConfigs
  /\ issue = sample_issue
  /\ result = None
  /\ \E l \in ListsUpTo(BatchIssues, MaxBatch), old \in EarlierVerdicts :
       issues = WithVerdict(l, old)
  /\ results = None
  /\ batch_calls = 0
  /\ summary = None
  /\ overall_status = None
  /\ report_data = None
  /\ raised = None
  /\ requests = <<>>

\* results = classifier.classify_issues_batch(issues)
ClassifyIssuesBatch ==
  /\ batch_calls < MaxBatchCalls
  /\ LET r == classify_issues_batch(issues, config)
     IN  /\ issues' = r.issues
         /\ raised' = r.raised
         /\ results' = IF r.raised = None THEN Some(r.results) ELSE results
  /\ batch_calls' = batch_calls + 1
  /\ UNCHANGED <<config, issue, result, summary, overall_status, report_data,
                 requests>>

NextBatch == ClassifyIssuesBatch

SpecBatch == InitBatch /\ [][NextBatch]_vars

----------------------------------------------------------------------------
(* Properties of classify_issues_batch *)

BatchRan == batch_calls > 0

\* classifying the k-th issue of the list on its own raises
RaisesAt(k) == classify_issue_error(issues[k], config) # None

\* the verdict the k-th issue gets when classified alone, exception included
VerdictAlone(k) ==
  IF RaisesAt(k)
  THEN [status |-> AMBER,
        reason |-> "Classification error: 'NoneType' object is not iterable",
        confidence |-> 0]
  ELSE classify_issue(issues[k], config)

\* no later issue of the list has the key of the k-th
LastOfKey(k) == \A j \in (k + 1)..Len(issues) : issues[j].key # issues[k].key

\* C11: classify_issues_batch never aborts: an issue whose classification
\* raises gets AMBER with a reason describing the error and confidence 0,
\* recorded in the result map and on the issue, and every other issue of the
\* list, the later ones included, is classified as it would be alone
C11_BatchNeverAborts ==
  BatchRan =>
    /\ raised = None
    /\ results # None
    /\ \A k \in 1..Len(issues) :
         LET v == VerdictAlone(k)
         IN  /\ issues[k].key \in DOMAIN Get(results)
             /\ issues[k].rag_status = Some(v.status)
             /\ issues[k].rag_reason = Some(v.reason)
             /\ LastOfKey(k) => Get(results)[issues[k].key] = v
             /\ RaisesAt(k) => v.status = AMBER /\ v.confidence = 0

C11_Witness ==
  /\ BatchRan
  /\ Len(issues) = 3
  /\ RaisesAt(1)
  /\ ~RaisesAt(2) /\ ~RaisesAt(3)
  /\ issues[1].key = "TEST-1" /\ issues[2].key = "TEST-0"
  /\ issues[3].key = "TEST-0"
  /\ issues[1].rag_status = Some(AMBER)
  /\ Get(results)["TEST-1"].confidence = 0
  /\ issues[2].rag_status = Some(RED)
  /\ issues[3].rag_status = Some(GREEN)

\* C12: after classify_issues_batch every issue of the list has rag_status
\* and rag_reason both set, and they are the tier and the reason of one and
\* the same verdict, the one the issue gets when classified now; an earlier
\* verdict on the issue is overwritten in both fields
C12_StatusAndReasonTogether ==
  BatchRan =>
    \A k \in 1..Len(issues) :
      /\ issues[k].rag_status # None
      /\ issues[k].rag_reason # None
      /\ LET v == VerdictAlone(k)
         IN  <<Get(issues[k].rag_status), Get(issues[k].rag_reason)>>
               = <<v.status, v.reason>>

C12_Witness ==
  /\ batch_calls = 2
  /\ Len(issues) = 2
  /\ issues[1].rag_status = Some(GREEN)
  /\ issues[1].rag_reason
       = Some("Issue is progressing normally with no identified risks")
  /\ issues[2].rag_status = Some(AMBER)
  /\ issues[2].rag_reason = Some("Issue has been in In Progress for 5 days")

\* C13: classify_issues_batch is idempotent: a further run on the same list
\* under the same configuration returns the same map and leaves the same
\* rag_status and rag_reason on every issue as the run before
C13_BatchIdempotent ==
  [][BatchRan /\ batch_calls' = batch_calls + 1 =>
       /\ results' = results
       /\ issues' = issues
       /\ raised' = raised]_vars

C13_Witness ==
  /\ batch_calls = 2
  /\ Len(issues) = 3
  /\ results # None
  /\ DOMAIN Get(results) = {"TEST-0", "TEST-1"}
  /\ \E k \in 1..Len(issues) : RaisesAt(k)

\* C14: classify_issue has no side effect: a call leaves the issue, its
\* rag_status and rag_reason included, and the configuration as they were
C14_ClassifyIssueHasNoSideEffect ==
  [][result' # result => issue' = issue /\ config' = config]_vars

C14_Witness ==
  /\ Classified
  /\ verdict.status = RED
  /\ issue.rag_status = None
  /\ issue.rag_reason = None
  /\ config = RAGConfig

----------------------------------------------------------------------------
(* rag_classifier.py: get_rag_summary, get_overall_status *)

RECURSIVE summary_loop_NoUnclassified(_, _, _)
\* variant: an issue without a rag_status is not counted at all
summary_loop_NoUnclassified(iss, k, sm) ==
  IF k > Len(iss) THEN sm
  ELSE summary_loop_NoUnclassified(iss, k + 1,
         IF iss[k].rag_status = Some(GREEN) THEN [sm EXCEPT !.green = @ + 1]
         ELSE IF iss[k].rag_status = Some(AMBER) THEN [sm EXCEPT !.amber = @ + 1]
         ELSE IF iss[k].rag_status = Some(RED) THEN [sm EXCEPT !.red = @ + 1]
         ELSE sm)

RECURSIVE summary_loop(_, _, _)
\* the for loop from its k-th issue on, sm being the counts so far
summary_loop(iss, k, sm) ==
  IF k > Len(iss) THEN sm
  ELSE summary_loop(iss, k + 1,
         IF iss[k].rag_status = Some(GREEN) THEN [sm EXCEPT !.green = @ + 1]
         ELSE IF iss[k].rag_status = Some(AMBER) THEN [sm EXCEPT !.amber = @ + 1]
         ELSE IF iss[k].rag_status = Some(RED) THEN [sm EXCEPT !.red = @ + 1]
         ELSE [sm EXCEPT !.unclassified = @ + 1])

get_rag_summary(iss) ==
  summary_loop(iss, 1,
    [total |-> Len(iss), green |-> 0, amber |-> 0, red |-> 0, unclassified |-> 0])

\* amber / total > 0.2 for total > 0.  The float quotient of two list sizes
\* is above the float 0.2 exactly when the rational amber / total is above
\* 2/10: a quotient equal to 1/5 rounds to the float 0.2 itself, and any
\* other quotient is further from 1/5 than the rounding error.
AmberPercentageOver(amber, total) == 10 * amber > 2 * total

\* variant: the comparison with 0.2 is not strict
get_overall_status_AtLeast(iss) ==
  IF Len(iss) = 0 THEN GREEN
  ELSE LET sm == get_rag_summary(iss)
       IN  IF sm.red > 0 THEN RED
           ELSE IF sm.total > 0 /\ 10 * sm.amber >= 2 * sm.total THEN AMBER
           ELSE GREEN

get_overall_status(iss) ==
  IF Len(iss) = 0 THEN GREEN
  ELSE LET sm == get_rag_summary(iss)
       IN  IF sm.red > 0 THEN RED
           ELSE IF sm.total > 0 /\ AmberPercentageOver(sm.amber, sm.total) THEN AMBER
           ELSE GREEN

----------------------------------------------------------------------------
(* report_generator.py: _categorize_issues_for_report *)

in_progress_statuses ==
  <<"in progress", "development", "coding", "implementation",
    "in development", "work in progress", "doing">>

is_in_progress(i) ==
  \E k \in 1..Len(in_progress_statuses) :
    StrIn(in_progress_statuses[k], lower(i.status.name))

\* a <= b on two datetimes that can be compared
le(a, b) == a.ticks <= b.ticks

\* week_start <= issue.updated <= week_end on an in-progress status name
_was_started_this_week(i, week_start, week_end) ==
  /\ is_in_progress(i)
  /\ le(week_start, i.updated) /\ le(i.updated, week_end)

\* variant: the end of the window is excluded
_was_completed_this_week_EndExclusive(i, week_start, week_end) ==
  /\ i.resolved # None
  /\ le(week_start, Get(i.resolved)) /\ Get(i.resolved).ticks < week_end.ticks

_was_completed_this_week(i, week_start, week_end) ==
  /\ i.resolved # None
  /\ le(week_start, Get(i.resolved)) /\ le(Get(i.resolved), week_end)

\* one of the comparisons made for issue i raises: updated is compared for
\* every issue, resolved when it is set
ComparisonRaises(i, week_start) ==
  \/ ~CanCompare(week_start, i.updated)
  \/ i.resolved # None /\ ~CanCompare(week_start, Get(i.resolved))

\* the message of the exception that leaves the categorization; None when
\* it returns
categorize_error(iss, week_ending) ==
  IF \E k \in 1..Len(iss) : ComparisonRaises(iss[k], combine_min(week_ending - 6))
  THEN Some(NaiveAwareError)
  ELSE None

RECURSIVE report_loop_NotGreenIsBlocked(_, _, _, _, _)
\* variant: every issue that is not GREEN goes to the blocked list
report_loop_NotGreenIsBlocked(iss, k, week_start, week_end, rd) ==
  IF k > Len(iss) THEN rd
  ELSE LET i  == iss[k]
           r1 == IF _was_started_this_week(i, week_start, week_end)
                 THEN [rd EXCEPT !.started_issues = Append(@, i)] ELSE rd
           r2 == IF _was_completed_this_week(i, week_start, week_end)
                 THEN [r1 EXCEPT !.completed_issues = Append(@, i)] ELSE r1
           r3 == IF i.rag_status # Some(GREEN)
                 THEN [r2 EXCEPT !.blocked_issues = Append(@, i)]
                 ELSE r2
       IN  report_loop_NotGreenIsBlocked(iss, k + 1, week_start, week_end, r3)

RECURSIVE report_loop_Prepend(_, _, _, _, _)
\* variant: an issue is put at the front of its lists
report_loop_Prepend(iss, k, week_start, week_end, rd) ==
  IF k > Len(iss) THEN rd
  ELSE LET i  == iss[k]
           r1 == IF _was_started_this_week(i, week_start, week_end)
                 THEN [rd EXCEPT !.started_issues = <<i>> \o @] ELSE rd
           r2 == IF _was_completed_this_week(i, week_start, week_end)
                 THEN [r1 EXCEPT !.completed_issues = <<i>> \o @] ELSE r1
           r3 == IF i.rag_status = Some(RED)
                 THEN [r2 EXCEPT !.blocked_issues = <<i>> \o @]
                 ELSE IF i.rag_status = Some(AMBER)
                 THEN [r2 EXCEPT !.at_risk_issues = <<i>> \o @]
                 ELSE r2
       IN  report_loop_Prepend(iss, k + 1, week_start, week_end, r3)

RECURSIVE report_loop(_, _, _, _, _)
\* the for loop from its k-th issue on, rd being the report data so far
report_loop(iss, k, week_start, week_end, rd) ==
  IF k > Len(iss) THEN rd
  ELSE LET i  == iss[k]
           r1 == IF _was_started_this_week(i, week_start, week_end)
                 THEN [rd EXCEPT !.started_issues = Append(@, i)] ELSE rd
           r2 == IF _was_completed_this_week(i, week_start, week_end)
                 THEN [r1 EXCEPT !.completed_issues = Append(@, i)] ELSE r1
           r3 == IF i.rag_status = Some(RED)
                 THEN [r2 EXCEPT !.blocked_issues = Append(@, i)]
                 ELSE IF i.rag_status = Some(AMBER)
                 THEN [r2 EXCEPT !.at_risk_issues = Append(@, i)]
                 ELSE r2
       IN  report_loop(iss, k + 1, week_start, week_end, r3)

\* len([i for i in issues if i.rag_status == t])
count_rag(iss, t) == Len(SelectSeq(iss, LAMBDA i : i.rag_status = Some(t)))

\* variant: the counts are taken over the issues that landed in a list
summary_statistics_BucketedOnly(iss, rd) ==
  [rd EXCEPT !.total_issues = Len(rd.started_issues) + Len(rd.completed_issues)
                                + Len(rd.blocked_issues) + Len(rd.at_risk_issues),
             !.green_count  = count_rag(rd.started_issues \o rd.completed_issues, GREEN),
             !.amber_count  = Len(rd.at_risk_issues),
             !.red_count    = Len(rd.blocked_issues)]

\* total_issues, green_count, amber_count, red_count over the whole input
summary_statistics(iss, rd) ==
  [rd EXCEPT !.total_issues = Len(iss),
             !.green_count  = count_rag(iss, GREEN),
             !.amber_count  = count_rag(iss, AMBER),
             !.red_count    = count_rag(iss, RED)]

\* variant: the threshold is a tenth of the green count
AmberOverGreenShare_Tenth(amber_count, green_count) == 10 * amber_count > green_count

\* amber_count > green_count * 0.3.  The float product of a list size and
\* 0.3 compares with an integer as the rational 3 * green_count / 10 does:
\* where the rational is an integer the product rounds to it.
AmberOverGreenShare(amber_count, green_count) == 10 * amber_count > 3 * green_count

\* variant: the amber share is taken of all issues instead of the green ones
overall_rag_status_OfTotal(rd) ==
  IF rd.red_count > 0 THEN RED
  ELSE IF 10 * rd.amber_count > 3 * rd.total_issues THEN AMBER
  ELSE GREEN

\* the overall RAG status of the report
overall_rag_status(rd) ==
  IF rd.red_count > 0 THEN RED
  ELSE IF AmberOverGreenShare(rd.amber_count, rd.green_count) THEN AMBER
  ELSE GREEN

\* WeeklyReportData(team_name, report_week) with its defaults; report_week,
\* the text "mm/dd - mm/dd/yyyy", is kept as the two dates it renders
WeeklyReportData(team_name, week_start, week_ending) ==
  [team_name          |-> team_name,
   report_week        |-> [start |-> week_start, end |-> week_ending],
   started_issues     |-> <<>>,
   completed_issues   |-> <<>>,
   blocked_issues     |-> <<>>,
   at_risk_issues     |-> <<>>,
   total_issues       |-> 0,
   green_count        |-> 0,
   amber_count        |-> 0,
   red_count          |-> 0,
   overall_rag_status |-> GREEN]

\* the report data returned when no comparison raises
_categorize_issues_for_report(team_name, iss, week_ending) ==
  LET week_start == week_ending - 6
      week_start_datetime == combine_min(week_start)
      week_end_datetime == combine_max(week_ending)
      looped == report_loop(iss, 1, week_start_datetime, week_end_datetime,
                            WeeklyReportData(team_name, week_start, week_ending))
      counted == summary_statistics(iss, looped)
  IN  [counted EXCEPT !.overall_rag_status = overall_rag_status(counted)]

\* the week_ending dates a report is asked for, as day numbers
WeekEndings == {7, 8}

\* report_data = generator._categorize_issues_for_report(team, issues, week_ending)
CategorizeIssuesForReport ==
  /\ \E week_ending \in WeekEndings :
       LET e == categorize_error(issues, week_ending)
       IN  IF e # None
           THEN /\ raised' = e
                /\ UNCHANGED report_data
           ELSE /\ raised' = None
                /\ report_data' =
                     Some(_categorize_issues_for_report("Team", issues, week_ending))
  /\ UNCHANGED <<config, issue, result, issues, results, batch_calls,
                 summary, overall_status, requests>>

----------------------------------------------------------------------------
(* State machine of the summary helpers: a list of issues that carry a     *)
(* rag_status or none, on which the two helpers are called                 *)

\* the list handed to the summary helpers has at most MaxSummary issues
MaxSummary == 5

\* an issue as _create_test_issue builds it, or one never classified
SummaryIssues ==
  { [sample_issue EXCEPT !.rag_status = rs] :
      rs \in {None} \cup {Some(t) : t \in RAGStatus} }

InitSummary ==
  /\ config = RAGConfig
  /\ issue = sample_issue
  /\ result = None
  /\ issues \in ListsUpTo(SummaryIssues, MaxSummary)
  /\ results = None
  /\ batch_calls = 0
  /\ summary = None
  /\ overall_status = None
  /\ report_data = None
  /\ raised = None
  /\ requests = <<>>

\* summary = classifier.get_rag_summary(issues)
GetRagSummary ==
  /\ summary' = Some(get_rag_summary(issues))
  /\ UNCHANGED <<config, issue, result, issues, results, batch_calls,
                 overall_status, report_data, raised, requests>>

\* overall_status = classifier.get_overall_status(issues)
GetOverallStatus ==
  /\ overall_status' = Some(get_overall_status(issues))
  /\ UNCHANGED <<config, issue, result, issues, results, batch_calls,
                 summary, report_data, raised, requests>>

NextSummary == GetRagSummary \/ GetOverallStatus \/ CategorizeIssuesForReport

SpecSummary == InitSummary /\ [][NextSummary]_vars

----------------------------------------------------------------------------
(* Properties of the summary helpers *)

\* how many issues of the list carry the tier t
CountTier(t) == Cardinality({k \in 1..Len(issues) : issues[k].rag_status = Some(t)})

CountUnset == Cardinality({k \in 1..Len(issues) : issues[k].rag_status = None})

\* C15: in the summary green + amber + red + unclassified = total = number
\* of issues, each issue counted in exactly one of the four, and
\* green + amber + red = total exactly when every issue has a rag_status
C15_SummaryCountsAddUp ==
  summary # None =>
    LET sm == Get(summary)
    IN  /\ sm.total = Len(issues)
        /\ sm.green + sm.amber + sm.red + sm.unclassified = sm.total
        /\ sm.green = CountTier(GREEN)
        /\ sm.amber = CountTier(AMBER)
        /\ sm.red = CountTier(RED)
        /\ sm.unclassified = CountUnset
        /\ (sm.green + sm.amber + sm.red = sm.total)
             <=> (\A k \in 1..Len(issues) : issues[k].rag_status # None)

C15_Witness ==
  /\ summary # None
  /\ Len(issues) = 4
  /\ Get(summary).unclassified = 2
  /\ Get(summary).green = 1
  /\ Get(summary).red = 1
  /\ Get(summary).green + Get(summary).amber + Get(summary).red < Get(summary).total

C17_MostlyGreenIsGreen ==
  overall_status # None /\ CountTier(RED) = 0
    /\ CountTier(GREEN) > CountTier(AMBER) /\ 2 * CountTier(GREEN) > Len(issues) =>
      Get(overall_status) = GREEN

----------------------------------------------------------------------------
(* State machine of the categorizer: a list of issues with a rag_status or *)
(* none, statuses in progress or not, timestamps at the edges of the       *)
(* reporting window, naive as the tests build them or timezone-aware as    *)
(* the Jira collector does, on which the categorization is called          *)

\* the list handed to the categorizer has at most MaxReport issues
MaxReport == 2

\* the same instant carrying a timezone
aware(dt) == [dt EXCEPT !.aware = TRUE]

\* updated and resolved timestamps around the windows ending on day 7 and 8
ReportTimes ==
  { [updated |-> combine_max(0), resolved |-> None],
    [updated |-> combine_min(1), resolved |-> None],
    [updated |-> combine_min(1), resolved |-> Some(combine_max(7))],
    [updated |-> combine_max(0), resolved |-> Some(combine_min(8))] }

\* resolved at the first instant of the window ending on day 7, and at the
\* instant before it
ResolvedAtStart ==
  { [updated |-> combine_max(0), resolved |-> Some(combine_min(1))],
    [updated |-> combine_min(1), resolved |-> Some(combine_max(0))] }

ReportIssues ==
  { [sample_issue EXCEPT !.status.name = st, !.rag_status = rs,
                         !.updated = t.updated, !.resolved = t.resolved] :
      st \in {"In Progress", "Code Review"},
      rs \in {None} \cup {Some(tier) : tier \in RAGStatus},
      t \in ReportTimes }
    \cup
  { [sample_issue EXCEPT !.status.name = sr.st, !.rag_status = sr.rs,
                         !.updated = t.updated, !.resolved = t.resolved] :
      sr \in { [st |-> "Code Review", rs |-> None],
               [st |-> "In Progress", rs |-> Some(GREEN)] },
      t \in ResolvedAtStart }
    \cup
  { [sample_issue EXCEPT !.updated = aware(combine_min(1))],
    [sample_issue EXCEPT !.status.name = "Code Review",
                         !.rag_status = Some(GREEN),
                         !.updated = combine_min(1),
                         !.resolved = Some(aware(combine_max(7)))] }

InitReport ==
  /\ config = RAGConfig
  /\ issue = sample_issue
  /\ result = None
  /\ issues \in ListsUpTo(ReportIssues, MaxReport)
  /\ results = None
  /\ batch_calls = 0
  /\ summary = None
  /\ overall_status = None
  /\ report_data = None
  /\ raised = None
  /\ requests = <<>>

NextReport == CategorizeIssuesForReport

SpecReport == InitReport /\ [][NextReport]_vars

----------------------------------------------------------------------------
(* Properties of the categorizer *)

\* the categorization returned a bucket
Categorized == report_data # None

bucket == Get(report_data)

\* the issues of the list with tier t, in list order
IssuesWithTier(t) == SelectSeq(issues, LAMBDA i : i.rag_status = Some(t))

\* the issue i occurs in the list l
InList(i, l) == \E j \in 1..Len(l) : l[j] = i

AllNaive ==
  \A k \in 1..Len(issues) :
    /\ ~issues[k].updated.aware
    /\ issues[k].resolved # None => ~Get(issues[k].resolved).aware

\* C18: an issue is in the blocked bucket exactly when its rag_status is
\* RED and in the at_risk bucket exactly when it is AMBER; an issue with
\* rag_status unset or GREEN is in neither, and does not make the
\* categorization fail
C18_RiskBucketsByRagStatus ==
  /\ Categorized =>
       /\ bucket.blocked_issues = IssuesWithTier(RED)
       /\ bucket.at_risk_issues = IssuesWithTier(AMBER)
       /\ \A k \in 1..Len(issues) :
            /\ InList(issues[k], bucket.blocked_issues)
                 <=> issues[k].rag_status = Some(RED)
            /\ InList(issues[k], bucket.at_risk_issues)
                 <=> issues[k].rag_status = Some(AMBER)
  /\ raised # None => ~AllNaive

C18_Witness ==
  /\ Categorized
  /\ Len(issues) = 2
  /\ issues[1].rag_status = None
  /\ issues[2].rag_status = Some(GREEN)
  /\ bucket.blocked_issues = <<>>
  /\ bucket.at_risk_issues = <<>>
  /\ bucket.started_issues # <<>>

\* C19: the aggregate counts are taken over the whole input list:
\* total_issues is the number of input issues and green_count, amber_count,
\* red_count are the numbers of issues with that rag_status, each issue
\* counted once whatever lists it is in
C19_CountsOverWholeInput ==
  Categorized =>
    /\ bucket.total_issues = Len(issues)
    /\ bucket.green_count = CountTier(GREEN)
    /\ bucket.amber_count = CountTier(AMBER)
    /\ bucket.red_count = CountTier(RED)

C19_Witness ==
  /\ Categorized
  /\ Len(issues) = 2
  /\ issues[1].rag_status = Some(GREEN)
  /\ InList(issues[1], bucket.started_issues)
  /\ InList(issues[1], bucket.completed_issues)
  /\ issues[2].rag_status = Some(GREEN)
  /\ ~InList(issues[2], bucket.started_issues)
  /\ ~InList(issues[2], bucket.completed_issues)
  /\ bucket.green_count = 2
  /\ bucket.total_issues = 2

\* C20: the overall status of the bucket is RED if red_count > 0; otherwise
\* AMBER if 10 * amber_count > 3 * green_count; otherwise GREEN; a list with
\* no RED and no AMBER issue gives GREEN, the empty list and a list of
\* unclassified issues included
C20_BucketOverallStatus ==
  Categorized =>
    /\ bucket.overall_rag_status =
         IF CountTier(RED) > 0 THEN RED
         ELSE IF 10 * CountTier(AMBER) > 3 * CountTier(GREEN) THEN AMBER
         ELSE GREEN
    /\ CountTier(RED) = 0 /\ CountTier(AMBER) = 0 =>
         bucket.overall_rag_status = GREEN
    /\ CountTier(RED) = 0 /\ CountTier(AMBER) > 0 /\ CountTier(GREEN) = 0 =>
         bucket.overall_rag_status = AMBER

C20_Witness ==
  /\ Categorized
  /\ Len(issues) = 5
  /\ CountTier(AMBER) = 1
  /\ CountTier(GREEN) = 4
  /\ bucket.overall_rag_status = GREEN

\* the reporting window of the bucket: the seven calendar days that end on
\* week_ending, from 00:00 of the first to the last instant of the last
WindowFirstTick == (bucket.report_week.end - 6) * TicksPerDay

WindowLastTick == bucket.report_week.end * TicksPerDay + (TicksPerDay - 1)

ResolvedInWindow(i) ==
  /\ i.resolved # None
  /\ WindowFirstTick <= Get(i.resolved).ticks
  /\ Get(i.resolved).ticks <= WindowLastTick

\* C21: an issue is in the completed list exactly when its resolved
\* timestamp is set and lies in the window, both ends included; the window
\* is the seven days ending on week_ending; the answer is the same for any
\* other issue with the same resolved timestamp, whatever its rag_status
\* and status name
C21_CompletedInWindow ==
  Categorized =>
    /\ bucket.report_week.start = bucket.report_week.end - 6
    /\ bucket.completed_issues = SelectSeq(issues, ResolvedInWindow)
    /\ \A k \in 1..Len(issues) :
         InList(issues[k], bucket.completed_issues) <=> ResolvedInWindow(issues[k])

C21_Witness ==
  /\ Categorized
  /\ bucket.report_week.end = 7
  /\ Len(issues) = 2
  /\ issues[1].resolved = Some(combine_max(7))
  /\ issues[1].rag_status = Some(RED)
  /\ issues[1].status.name = "Code Review"
  /\ issues[2].resolved = Some(combine_max(0))
  /\ bucket.completed_issues = <<issues[1]>>

\* the first and the last instant of the window are in it, the instant
\* after the last is not
C21_WitnessEdges ==
  /\ Categorized
  /\ bucket.report_week.end = 7
  /\ Len(issues) = 2
  /\ issues[1].resolved = Some(combine_min(1))
  /\ issues[2].resolved = Some(combine_min(8))
  /\ bucket.completed_issues = <<issues[1]>>

\* C22: the categorization never raises, timezone-aware updated / resolved
\* timestamps included
C22_CategorizationNeverRaises == raised = None

----------------------------------------------------------------------------
(* mcp_server.py: the request handlers.  Each handler is a coroutine of    *)
(* the one event loop of the server: it runs alone from one await that     *)
(* suspends it to the next, and another handler can run only there         *)

\* the assignments of _handle_configure_rag_rules: an argument that is
\* present replaces the field, whatever its value; the classifier is then
\* rebuilt on the same RAGConfig object
configure_rag_rules(cfg, args) ==
  LET c1 == IF args.green_max_days # None
            THEN [cfg EXCEPT !.green_max_days_in_status = Get(args.green_max_days)]
            ELSE cfg
      c2 == IF args.yellow_max_days # None
            THEN [c1 EXCEPT !.yellow_max_days_in_status = Get(args.yellow_max_days)]
            ELSE c1
      c3 == IF args.red_priorities # None
            THEN [c2 EXCEPT !.red_priority_levels = Get(args.red_priorities)]
            ELSE c2
  IN  IF args.blocked_statuses # None
      THEN [c3 EXCEPT !.blocked_statuses = Get(args.blocked_statuses)]
      ELSE c3

\* variant: the loop body suspends the handler after each issue
loop_runs_to_AwaitEach(iss, k) == IF k < Len(iss) THEN k ELSE Len(iss)

\* the last issue the loop "for issue in issues" classifies, entered at the
\* k-th, before the handler can be suspended: the body has no await, so the
\* loop runs to the end of the list
loop_runs_to(iss, k) == Len(iss)

RECURSIVE handler_loop(_, _, _, _)
\* the issues k..last classified in place under cfg
handler_loop(iss, cfg, k, last) ==
  IF k > last THEN iss
  ELSE handler_loop(
         [iss EXCEPT ![k] = write_verdict(iss[k], classify_issue(iss[k], cfg))],
         cfg, k + 1, last)

\* "count" and "rag_summary" of the response of _handle_get_issues
get_issues_response(iss, apply_rag_classification) ==
  [count |-> Len(iss),
   rag_summary |->
     IF apply_rag_classification
     THEN Some([green |-> count_rag(iss, GREEN),
                amber |-> count_rag(iss, AMBER),
                red   |-> count_rag(iss, RED)])
     ELSE None]

\* the response of _handle_generate_report once the issues are classified:
\* the report of the categorized issues, or the text of the exception
generate_report_response(team_name, iss, week_ending) ==
  LET e == categorize_error(iss, week_ending)
  IN  IF e # None
      THEN [error |-> Some("Error generating report: " \o Get(e)),
            overall_rag_status |-> None]
      ELSE [error |-> None,
            overall_rag_status |->
              Some(_categorize_issues_for_report(team_name, iss, week_ending)
                     .overall_rag_status)]

----------------------------------------------------------------------------
(* State machine of the server: requests arrive, their handlers are        *)
(* suspended while Jira is queried and resumed with the issues found,      *)
(* and configure_rag_rules requests change the rules in between            *)

\* the issue lists Jira returns have at most MaxFetched issues
MaxFetched == 2

\* the requests that can be in flight together
Requests == {"req-1", "req-2"}

\* issues as the collector builds them, timestamps timezone-aware
FetchedIssues ==
  { [sample_issue EXCEPT !.key = "TEST-1", !.updated = aware(combine_min(1))],
    [sample_issue EXCEPT !.key = "TEST-2", !.status.name = "Code Review",
                         !.days_in_status = Some(5),
                         !.updated = aware(combine_min(2))] }

\* no argument present
NoArgs ==
  [green_max_days |-> None, yellow_max_days |-> None,
   red_priorities |-> None, blocked_statuses |-> None]

\* the arguments of a configure_rag_rules request: one threshold changed, or
\* all four rules set back to the defaults
ConfigureArgs ==
  { [NoArgs EXCEPT !.green_max_days = Some(0 - 1)],
    [NoArgs EXCEPT !.yellow_max_days = Some(1)],
    [green_max_days   |-> Some(RAGConfig.green_max_days_in_status),
     yellow_max_days  |-> Some(RAGConfig.yellow_max_days_in_status),
     red_priorities   |-> Some(RAGConfig.red_priority_levels),
     blocked_statuses |-> Some(RAGConfig.blocked_statuses)] }

\* the rule configurations the server can come to hold
ServerConfigs ==
  [green_max_days_in_status  : {RAGConfig.green_max_days_in_status, 0 - 1},
   yellow_max_days_in_status : {RAGConfig.yellow_max_days_in_status, 1},
   red_priority_levels       : {RAGConfig.red_priority_levels},
   blocked_statuses          : {RAGConfig.blocked_statuses}]

InitServer ==
  /\ config = RAGConfig
  /\ issue = sample_issue
  /\ result = None
  /\ issues = <<>>
  /\ results = None
  /\ batch_calls = 0
  /\ summary = None
  /\ overall_status = None
  /\ report_data = None
  /\ raised = None
  /\ requests = <<>>

server_unchanged ==
  UNCHANGED <<issue, result, issues, results, batch_calls, summary,
              overall_status, report_data, raised>>

\* _handle_get_issues up to "await self.jira_client.get_issues(criteria)"
HandleGetIssues(r) ==
  /\ r \notin DOMAIN requests
  /\ \E apply_rag_classification \in BOOLEAN :
       requests' = dict_set(requests, r,
         [kind |-> "get_issues",
          apply_rag_classification |-> apply_rag_classification,
          pc |-> "awaiting_issues", issues |-> <<>>, pos |-> 1,
          response |-> None])
  /\ UNCHANGED config
  /\ server_unchanged

\* _handle_generate_report up to "await self.jira_client.get_issues(criteria)"
HandleGenerateReport(r) ==
  /\ r \notin DOMAIN requests
  /\ requests' = dict_set(requests, r,
       [kind |-> "generate_report", apply_rag_classification |-> TRUE,
        pc |-> "awaiting_issues", issues |-> <<>>, pos |-> 1,
        response |-> None])
  /\ UNCHANGED config
  /\ server_unchanged

\* the event loop resumes the handler of request r: with the issues Jira
\* returned when it was awaiting them; it classifies as far as the loop runs
\* without suspending and, the loop over, builds its response
ResumeHandler(r) ==
  /\ r \in DOMAIN requests
  /\ requests[r].pc \in {"awaiting_issues", "classifying"}
  /\ \E fetched \in ListsUpTo(FetchedIssues, MaxFetched) :
       LET req  == requests[r]
           iss  == IF req.pc = "awaiting_issues" THEN fetched ELSE req.issues
           last == IF req.apply_rag_classification
                   THEN loop_runs_to(iss, req.pos) ELSE Len(iss)
           done == IF req.apply_rag_classification
                   THEN handler_loop(iss, config, req.pos, last) ELSE iss
       IN  /\ req.pc = "classifying" => fetched = <<>>
           /\ requests' = [requests EXCEPT ![r] =
                IF last < Len(iss)
                THEN [req EXCEPT !.pc = "classifying", !.issues = done,
                                 !.pos = last + 1]
                ELSE [req EXCEPT !.pc = "done", !.issues = done,
                                 !.pos = last + 1,
                                 !.response =
                                   Some(IF req.kind = "get_issues"
                                        THEN get_issues_response(done,
                                               req.apply_rag_classification)
                                        ELSE generate_report_response("Team", done, 7))]]
  /\ UNCHANGED config
  /\ server_unchanged

\* _handle_configure_rag_rules, which has no await: it runs as one step
HandleConfigureRagRules ==
  /\ \E args \in ConfigureArgs : config' = configure_rag_rules(config, args)
  /\ UNCHANGED requests
  /\ server_unchanged

NextServer ==
  \/ \E r \in Requests : HandleGetIssues(r)
  \/ \E r \in Requests : HandleGenerateReport(r)
  \/ \E r \in Requests : ResumeHandler(r)
  \/ HandleConfigureRagRules

SpecServer == InitServer /\ [][NextServer]_vars

----------------------------------------------------------------------------
(* Properties of the server *)

\* the issues of request r the loop has been over carry the verdicts they
\* get under the configuration c
ClassifiedUnder(r, c) ==
  \A k \in 1..(requests[r].pos - 1) :
    LET v == classify_issue(requests[r].issues[k], c)
    IN  /\ requests[r].issues[k].rag_status = Some(v.status)
        /\ requests[r].issues[k].rag_reason = Some(v.reason)

InvalidConfig(c) ==
  c.green_max_days_in_status < 0 \/ c.yellow_max_days_in_status < 0

\* C23: a configuration with a negative threshold is never accepted: the
\* server never holds one, and no request is classified under one
C23_InvalidConfigRejected ==
  /\ ~InvalidConfig(config)
  /\ \A r \in DOMAIN requests :
       requests[r].apply_rag_classification /\ requests[r].pos > 1 =>
         \E c \in ServerConfigs : ~InvalidConfig(c) /\ ClassifiedUnder(r, c)

\* C26: all issues of one request are classified under one and the same
\* rule configuration, whatever configure_rag_rules requests are handled
\* while the request is in flight
C26_OneConfigPerRequest ==
  \A r \in DOMAIN requests :
    requests[r].apply_rag_classification =>
      \E c \in ServerConfigs : ClassifiedUnder(r, c)

C26_Witness ==
  /\ DOMAIN requests = Requests
  /\ requests["req-1"].pc = "done" /\ requests["req-2"].pc = "done"
  /\ requests["req-1"].kind = "get_issues"
  /\ requests["req-2"].kind = "generate_report"
  /\ Len(requests["req-1"].issues) = 2 /\ Len(requests["req-2"].issues) = 2
  /\ requests["req-1"].issues[1].key # requests["req-1"].issues[2].key
  /\ requests["req-2"].issues[1].key # requests["req-2"].issues[2].key
  /\ ClassifiedUnder("req-1", RAGConfig)
  /\ ~ClassifiedUnder("req-2", RAGConfig)
  /\ config # RAGConfig

----------------------------------------------------------------------------
(* Order of the rules inside a tier *)

\* the reason text starts with prefix
StartsWith(text, prefix) ==
  Len(text) >= Len(prefix) /\ SubSeq(text, 1, Len(prefix)) = prefix

IsBlocked == issue.is_blocked \/ HasBlockedStatusName

IsPriorityOverdue == HasRedPriority /\ DaysOver(config.yellow_max_days_in_status)

BlockedReason == "Issue is in blocked status: " \o issue.status.name

BlockersReason ==
  "Issue has " \o ToString(Len(issue.blockers)) \o " blocking dependencies"

\* C24: the RED rules are tried in the order blocked, red priority
\* overdue, blockers, critical labels, and the first that matches gives the
\* reason: a blocked issue gets the blocked-status reason whatever else
\* matches, and an issue with blockers that is neither blocked nor
\* priority-overdue gets the blocking-dependencies reason with the count,
\* critical labels or not
C24_RedRuleOrder ==
  Classified =>
    /\ IsBlocked => verdict.reason = BlockedReason
    /\ ~IsBlocked /\ IsPriorityOverdue =>
         StartsWith(verdict.reason,
                    "High priority issue (" \o issue.priority \o ") has been in ")
    /\ ~IsBlocked /\ ~IsPriorityOverdue /\ issue.blockers # <<>> =>
         verdict.reason = BlockersReason
    /\ ~IsBlocked /\ ~IsPriorityOverdue /\ issue.blockers = <<>>
         /\ MatchingCriticalLabels # <<>> =>
         StartsWith(verdict.reason, "Issue has critical labels: ")

C24_Witness ==
  /\ Classified
  /\ ~IsBlocked /\ ~IsPriorityOverdue
  /\ Len(issue.blockers) = 2
  /\ MatchingCriticalLabels # <<>>
  /\ verdict.status = RED
  /\ verdict.reason = "Issue has 2 blocking dependencies"

\* blocked, with blockers and a critical label: the blocked-status reason
C24_WitnessBlocked ==
  /\ Classified
  /\ issue.is_blocked
  /\ issue.blockers # <<>>
  /\ MatchingCriticalLabels # <<>>
  /\ verdict.reason = "Issue is in blocked status: Code Review"

InAmberAge ==
  /\ DaysOver(config.green_max_days_in_status)
  /\ Get(days) <= config.yellow_max_days_in_status

AgeReason ==
  "Issue has been in " \o issue.status.name \o " for "
    \o ToString(Get(days)) \o " days"

PriorityReason ==
  "High priority issue (" \o issue.priority \o ") requires close monitoring"

RiskLabelPrefix == "Issue has risk-related labels: "

----------------------------------------------------------------------------
(* config.py: Config.from_env, the rule configuration read from the        *)
(* environment                                                             *)

RECURSIVE split_from(_, _, _, _)
\* the parts of s from its k-th character on, cur being the part begun
split_from(s, sep, k, cur) ==
  IF k > Len(s) THEN <<cur>>
  ELSE IF SubSeq(s, k, k) = sep
       THEN <<cur>> \o split_from(s, sep, k + 1, "")
       ELSE split_from(s, sep, k + 1, cur \o SubSeq(s, k, k))

\* s.split(sep) for a separator of one character: empty parts are kept
split(s, sep) == split_from(s, sep, 1, "")

\* the value of one decimal digit
digit(c) == CHOOSE n \in 0..9 : ToString(n) = c

RECURSIVE int_from(_, _, _)
int_from(s, k, acc) ==
  IF k > Len(s) THEN acc
  ELSE int_from(s, k + 1, 10 * acc + digit(SubSeq(s, k, k)))

\* int(s) on a decimal numeral with an optional minus sign
int(s) ==
  IF SubSeq(s, 1, 1) = "-" THEN 0 - int_from(s, 2, 0) ELSE int_from(s, 1, 0)

\* os.getenv(name, default)
getenv(env, name, default) == IF name \in DOMAIN env THEN env[name] ELSE default

\* the RAGConfig that Config.from_env builds
from_env(env) ==
  [green_max_days_in_status  |-> int(getenv(env, "GREEN_MAX_DAYS", "3")),
   yellow_max_days_in_status |-> int(getenv(env, "YELLOW_MAX_DAYS", "7")),
   red_priority_levels       |-> split(getenv(env, "RED_PRIORITIES", "Highest,High"), ","),
   blocked_statuses          |-> split(getenv(env, "BLOCKED_STATUSES", "Blocked,Waiting"), ",")]

----------------------------------------------------------------------------
(* State machine: a classifier over the configuration of an environment    *)

\* environments: the rule variables unset, or some of them set
Environments ==
  { [JIRA_SERVER |-> "https://jira.example.com"],
    [JIRA_SERVER |-> "https://jira.example.com", BLOCKED_STATUSES |-> ""],
    [JIRA_SERVER |-> "https://jira.example.com", BLOCKED_STATUSES |-> "Blocked,"],
    [JIRA_SERVER |-> "https://jira.example.com", BLOCKED_STATUSES |-> "On Hold"],
    [JIRA_SERVER |-> "https://jira.example.com", GREEN_MAX_DAYS |-> "1",
     YELLOW_MAX_DAYS |-> "10", RED_PRIORITIES |-> "Medium"] }

EnvIssues ==
  { [sample_issue EXCEPT !.status.name = st, !.priority = pr,
                         !.is_blocked = bl, !.days_in_status = d] :
      st \in {"In Progress", "Code Review", "BLOCKED by vendor", "on hold"},
      pr \in {"Medium", "High"},
      bl \in BOOLEAN,
      d \in {None, Some(2)} }

InitEnv ==
  /\ \E env \in Environments : config = from_env(env)
  /\ issue \in EnvIssues
  /\ result = None
  /\ issues = <<>>
  /\ results = None
  /\ batch_calls = 0
  /\ summary = None
  /\ overall_status = None
  /\ report_data = None
  /\ raised = None
  /\ requests = <<>>

NextEnv == ClassifyIssue

SpecEnv == InitEnv /\ [][NextEnv]_vars

\* C29: for an issue whose is_blocked is false the blocked-status rule
\* fires exactly when the status name contains, case-insensitively, one of
\* the configured blocked status names; a configuration whose list holds
\* the empty string, as BLOCKED_STATUSES='' or a trailing comma gives,
\* matches every status name, so every issue is RED
C29_BlockedStatusRule ==
  Classified =>
    /\ ~issue.is_blocked =>
         (verdict.reason = BlockedReason <=> HasBlockedStatusName)
    /\ ListIn("", config.blocked_statuses) =>
         verdict.status = RED /\ verdict.reason = BlockedReason

C29_Witness ==
  /\ Classified
  /\ config.blocked_statuses = <<"Blocked", "">>
  /\ ~issue.is_blocked
  /\ issue.status.name = "Code Review"
  /\ issue.priority = "Medium"
  /\ verdict.status = RED
  /\ verdict.reason = "Issue is in blocked status: Code Review"

\* BLOCKED_STATUSES='' gives the list with the empty string alone
C29_WitnessEmpty ==
  /\ Classified
  /\ config.blocked_statuses = <<"">>
  /\ ~issue.is_blocked
  /\ verdict.status = RED

----------------------------------------------------------------------------
(* State machine of the two overall statuses: a list of issues, given by   *)
(* how many it has of each tier, on which the classifier's                 *)
(* get_overall_status and the categorizer are both called                  *)

\* the list has at most MaxPerTier AMBER and at most MaxPerTier GREEN issues
MaxPerTier == 7

RECURSIVE repeat(_, _)
\* [x] * n
repeat(x, n) == IF n = 0 THEN <<>> ELSE <<x>> \o repeat(x, n - 1)

\* a list with the given numbers of RED, AMBER, GREEN and unclassified issues
IssuesByTier(red, amber, green, unset) ==
  repeat([sample_issue EXCEPT !.rag_status = Some(RED)], red)
    \o repeat([sample_issue EXCEPT !.rag_status = Some(AMBER)], amber)
    \o repeat([sample_issue EXCEPT !.rag_status = Some(GREEN)], green)
    \o repeat(sample_issue, unset)

InitOverall ==
  /\ config = RAGConfig
  /\ issue = sample_issue
  /\ result = None
  /\ \E red \in 0..1, amber \in 0..MaxPerTier, green \in 0..MaxPerTier,
        unset \in 0..1 :
       issues = IssuesByTier(red, amber, green, unset)
  /\ results = None
  /\ batch_calls = 0
  /\ summary = None
  /\ overall_status = None
  /\ report_data = None
  /\ raised = None
  /\ requests = <<>>

NextOverall == GetOverallStatus \/ CategorizeIssuesForReport

SpecOverall == InitOverall /\ [][NextOverall]_vars

\* GREEN < AMBER < RED
Severity(t) == IF t = RED THEN 2 ELSE IF t = AMBER THEN 1 ELSE 0

BothComputed == overall_status # None /\ Categorized

C27_WitnessUnclassified ==
  /\ BothComputed
  /\ CountUnset = 1
  /\ Get(overall_status) = GREEN
  /\ bucket.overall_rag_status = AMBER

----------------------------------------------------------------------------
(* The map returned by classify_issues_batch *)

KeysOfList == {issues[k].key : k \in 1..Len(issues)}

KeysDistinct ==
  \A j, k \in 1..Len(issues) : j # k => issues[j].key # issues[k].key

\* C28: the map returned by classify_issues_batch has exactly one entry per
\* distinct key of the list: as many entries as issues when the keys are
\* distinct; under a key that two issues share, the verdict of the later
\* one, while each issue carries its own verdict
C28_OneEntryPerKey ==
  BatchRan /\ results # None =>
    /\ DOMAIN Get(results) = KeysOfList
    /\ KeysDistinct => Cardinality(DOMAIN Get(results)) = Len(issues)
    /\ \A k \in 1..Len(issues) :
         LET v == VerdictAlone(k)
         IN  /\ LastOfKey(k) => Get(results)[issues[k].key] = v
             /\ issues[k].rag_status = Some(v.status)
             /\ issues[k].rag_reason = Some(v.reason)

C28_Witness ==
  /\ BatchRan
  /\ results # None
  /\ Len(issues) = 2
  /\ issues[1].key = "TEST-0" /\ issues[2].key = "TEST-0"
  /\ issues[1].rag_status = Some(RED)
  /\ issues[2].rag_status = Some(GREEN)
  /\ DOMAIN Get(results) = {"TEST-0"}
  /\ Get(results)["TEST-0"].status = GREEN

\* distinct keys: as many entries as issues
C28_WitnessDistinct ==
  /\ BatchRan
  /\ results # None
  /\ Len(issues) = 2
  /\ KeysDistinct
  /\ Cardinality(DOMAIN Get(results)) = 2

----------------------------------------------------------------------------
(* Shape of the bucket *)

RECURSIVE IsSubsequence(_, _)
\* l is b with some of its elements left out: the order of b is kept and
\* no element of b is used twice
IsSubsequence(l, b) ==
  IF l = <<>> THEN TRUE
  ELSE IF b = <<>> THEN FALSE
  ELSE IF Head(l) = Head(b) /\ IsSubsequence(Tail(l), Tail(b)) THEN TRUE
  ELSE IsSubsequence(l, Tail(b))

\* C30: in every bucket the blocked and at_risk lists are disjoint, blocked
\* has red_count issues and at_risk amber_count,
\* green_count + amber_count + red_count <= total_issues, and each of the
\* four lists keeps the input order with each input issue at most once
C30_BucketShape ==
  Categorized =>
    /\ \A j \in 1..Len(bucket.blocked_issues) :
         ~InList(bucket.blocked_issues[j], bucket.at_risk_issues)
    /\ Len(bucket.blocked_issues) = bucket.red_count
    /\ Len(bucket.at_risk_issues) = bucket.amber_count
    /\ bucket.green_count + bucket.amber_count + bucket.red_count
         <= bucket.total_issues
    /\ IsSubsequence(bucket.started_issues, issues)
    /\ IsSubsequence(bucket.completed_issues, issues)
    /\ IsSubsequence(bucket.blocked_issues, issues)
    /\ IsSubsequence(bucket.at_risk_issues, issues)

\* an issue in started, completed and blocked at once, after an AMBER one
C30_Witness ==
  /\ Categorized
  /\ Len(issues) = 2
  /\ issues[1].rag_status = Some(AMBER)
  /\ issues[2].rag_status = Some(RED)
  /\ bucket.started_issues = <<issues[1], issues[2]>>
  /\ issues[1] # issues[2]
  /\ bucket.completed_issues = <<issues[2]>>
  /\ bucket.blocked_issues = <<issues[2]>>
  /\ bucket.at_risk_issues = <<issues[1]>>
  /\ bucket.red_count = 1 /\ bucket.amber_count = 1 /\ bucket.total_issues = 2

====
